---- MODULE Spec2Model ----
(***************************************************************************)
(* Model of the sampling-rate calculator (matchesRule, simulateSampling)   *)
(* and of the callers that drive it.                                       *)
(*                                                                         *)
(* Representation of JavaScript values:                                    *)
(*   - a string is a sequence of one-character strings ("" is << >>);      *)
(*   - a Number is an exact rational [n |-> numerator, d |-> denominator]  *)
(*     in lowest terms with d > 0; the rounding of IEEE doubles is not     *)
(*     represented;                                                        *)
(*   - an object is a record or function; a missing property is a key      *)
(*     that is not in its DOMAIN.                                          *)
(***************************************************************************)
EXTENDS Integers, Sequences, FiniteSets, TLC

VARIABLES
  rawData, rules, expansionFactor, globalRate, days, result,  \* a call of simulateSampling
  matchItem, matchRule, matched,                              \* a call of matchesRule
  num, formatted,                                             \* a call of formatNumber
  breakdownData, filteredBreakdownData, currentPage,          \* app: the breakdown table
  searchValue, pageItems,
  fetchPc, fetchProject, response,                            \* app: handleFetchData
  fetchBtnDisabled, spinnerHidden, errorVisible,
  sampleRequests, sampleRatesDisplay, sampleRatesContent,     \* app: the sample-rates panel
  dataProject, simulatorArgs                                  \* history of the app

simVars == <<rawData, rules, expansionFactor, globalRate, days, result>>
matchVars == <<matchItem, matchRule, matched>>
formatVars == <<num, formatted>>
pageVars == <<breakdownData, filteredBreakdownData, currentPage, searchValue, pageItems>>
fetchVars ==
  <<fetchPc, fetchProject, response, fetchBtnDisabled, spinnerHidden, errorVisible,
    sampleRequests, sampleRatesDisplay, sampleRatesContent, dataProject, simulatorArgs>>
vars == <<simVars, matchVars, formatVars, pageVars, fetchVars>>

(***************************************************************************)
(* Numbers                                                                 *)
(***************************************************************************)
Abs(x) == IF x < 0 THEN -x ELSE x

RECURSIVE GCD(_, _)
GCD(a, b) == IF b = 0 THEN a ELSE GCD(b, a % b)

\* The value of a division by zero; no division of the calculator has a
\* zero divisor when days is positive.
NotANumber == [n |-> 0, d |-> 0]

Rat(n, d) ==
  IF d = 0 THEN NotANumber
  ELSE LET g == GCD(Abs(n), Abs(d))
           s == IF d < 0 THEN -1 ELSE 1
       IN  [n |-> (s * n) \div g, d |-> (s * d) \div g]

Num(i) == [n |-> i, d |-> 1]

IsFinite(a) == a.d # 0

Add(a, b) == IF IsFinite(a) /\ IsFinite(b) THEN Rat(a.n * b.d + b.n * a.d, a.d * b.d) ELSE NotANumber
Sub(a, b) == IF IsFinite(a) /\ IsFinite(b) THEN Rat(a.n * b.d - b.n * a.d, a.d * b.d) ELSE NotANumber
Mul(a, b) == IF IsFinite(a) /\ IsFinite(b) THEN Rat(a.n * b.n, a.d * b.d) ELSE NotANumber
Div(a, b) == IF IsFinite(a) /\ IsFinite(b) THEN Rat(a.n * b.d, a.d * b.n) ELSE NotANumber

\* a > b and a >= b; every comparison with NaN is false
Gt(a, b) == IsFinite(a) /\ IsFinite(b) /\ a.n * b.d > b.n * a.d
Ge(a, b) == IsFinite(a) /\ IsFinite(b) /\ a.n * b.d >= b.n * a.d

\* Math.max(a, b)
MathMax(a, b) ==
  IF ~IsFinite(a) \/ ~IsFinite(b) THEN NotANumber
  ELSE IF Ge(a, b) THEN a ELSE b

(***************************************************************************)
(* Strings                                                                 *)
(***************************************************************************)
UpperLetters == <<"A","B","C","D","E","F","G","H","I","J","K","L","M",
                  "N","O","P","Q","R","S","T","U","V","W","X","Y","Z">>
LowerLetters == <<"a","b","c","d","e","f","g","h","i","j","k","l","m",
                  "n","o","p","q","r","s","t","u","v","w","x","y","z">>

LowerChar(c) ==
  IF \E i \in DOMAIN UpperLetters : UpperLetters[i] = c
  THEN LowerLetters[CHOOSE i \in DOMAIN UpperLetters : UpperLetters[i] = c]
  ELSE c

\* mutant: the case is kept
MutToLowerCaseKeepsCase(s) == s

\* String.prototype.toLowerCase
toLowerCase(s) == [i \in DOMAIN s |-> LowerChar(s[i])]

WhiteSpace == {" ", "\t", "\n", "\r"}

RECURSIVE TrimStart(_)
TrimStart(s) ==
  IF s # << >> /\ Head(s) \in WhiteSpace THEN TrimStart(Tail(s)) ELSE s

RECURSIVE TrimEnd(_)
TrimEnd(s) ==
  IF s # << >> /\ s[Len(s)] \in WhiteSpace THEN TrimEnd(SubSeq(s, 1, Len(s) - 1)) ELSE s

\* mutant: nothing is trimmed
MutTrimNothing(s) == s

\* String.prototype.trim
trim(s) == TrimEnd(TrimStart(s))

\* String.prototype.startsWith, endsWith, includes
startsWith(s, t) == Len(t) <= Len(s) /\ SubSeq(s, 1, Len(t)) = t
endsWith(s, t) == Len(t) <= Len(s) /\ SubSeq(s, Len(s) - Len(t) + 1, Len(s)) = t
includes(s, t) ==
  \E i \in 0..(Len(s) - Len(t)) : SubSeq(s, i + 1, i + Len(t)) = t

(***************************************************************************)
(* Regular expressions: new RegExp(pattern, 'i') and RegExp.prototype.test *)
(* for the patterns built from literal characters, ".", a leading "^", a   *)
(* trailing "$" and unquantified groups "(" ... ")".  Every pattern the    *)
(* model draws satisfies RegexInSubset or is rejected by RegexValid.       *)
(***************************************************************************)
RECURSIVE ParenDepthOk(_, _)
ParenDepthOk(p, depth) ==
  IF p = << >> THEN depth = 0
  ELSE IF Head(p) = "(" THEN ParenDepthOk(Tail(p), depth + 1)
  ELSE IF Head(p) = ")" THEN depth > 0 /\ ParenDepthOk(Tail(p), depth - 1)
  ELSE ParenDepthOk(Tail(p), depth)

\* FALSE where the RegExp constructor throws a SyntaxError
RegexValid(p) ==
  /\ ParenDepthOk(p, 0)
  /\ \A i \in DOMAIN p : p[i] = "[" => \E j \in (i + 1)..Len(p) : p[j] = "]"
  /\ \A i \in DOMAIN p : p[i] \in {"*", "+"} => i > 1 /\ p[i - 1] \notin {"(", "|"}
  /\ (p # << >> => p[Len(p)] # "\\")

RegexInSubset(p) ==
  /\ RegexValid(p)
  /\ \A i \in DOMAIN p : p[i] \notin {"[", "]", "*", "+", "?", "|", "{", "}", "\\"}
  /\ \A i \in DOMAIN p : p[i] = "^" => i = 1
  /\ \A i \in DOMAIN p : p[i] = "$" => i = Len(p)

RegexStripGroups(p) == SelectSeq(p, LAMBDA c : c \notin {"(", ")"})

RegexCharMatches(pc, c) ==
  IF pc = "." THEN c \notin {"\n", "\r"} ELSE LowerChar(pc) = LowerChar(c)

RegexTest(p, s) ==
  LET anchoredStart == p # << >> /\ Head(p) = "^"
      p1 == IF anchoredStart THEN Tail(p) ELSE p
      anchoredEnd == p1 # << >> /\ p1[Len(p1)] = "$"
      p2 == IF anchoredEnd THEN SubSeq(p1, 1, Len(p1) - 1) ELSE p1
      core == RegexStripGroups(p2)
  IN  \E i \in 1..(Len(s) - Len(core) + 1) :
        /\ anchoredStart => i = 1
        /\ anchoredEnd => i + Len(core) - 1 = Len(s)
        /\ \A k \in DOMAIN core : RegexCharMatches(core[k], s[i + k - 1])

(***************************************************************************)
(* calculator: matchesRule                                                 *)
(***************************************************************************)
\* mutant: a property that is present counts, the empty string included
MutTruthyPresent(obj, key) == key \in DOMAIN obj

\* JavaScript truthiness of the string property key of obj
Truthy(obj, key) == key \in DOMAIN obj /\ obj[key] # << >>

\* obj[key] || ''
StringOr(obj, key) == IF Truthy(obj, key) THEN obj[key] ELSE << >>

\* mutant: a rule without an operator is an 'equals' rule
MutOperatorOfDefaultEquals(rule) ==
  IF "operator" \in DOMAIN rule /\ rule.operator # "" THEN rule.operator ELSE "equals"

\* rule.operator || 'contains'
OperatorOf(rule) ==
  IF "operator" \in DOMAIN rule /\ rule.operator # "" THEN rule.operator ELSE "contains"

\* mutant: the catch block answers true
MutRegexMatchesInvalidTrue(ruleValue, spanValue) ==
  IF RegexValid(ruleValue) THEN RegexTest(ruleValue, spanValue) ELSE TRUE

\* try { new RegExp(ruleValue, 'i').test(spanValue) } catch (e) { return false }
RegexMatches(ruleValue, spanValue) ==
  IF RegexValid(ruleValue) THEN RegexTest(ruleValue, spanValue) ELSE FALSE

matchesRule(item, rule) ==
  IF ~Truthy(rule, "attribute") \/ ~Truthy(rule, "value") THEN FALSE
  ELSE
    LET spanValue == StringOr(item.attrs, rule.attribute)
        ruleValue == trim(rule.value)
        operator == OperatorOf(rule)
    IN  IF spanValue = << >> THEN FALSE
        ELSE CASE operator = "equals" -> toLowerCase(spanValue) = toLowerCase(ruleValue)
               [] operator = "contains" -> includes(toLowerCase(spanValue), toLowerCase(ruleValue))
               [] operator = "starts_with" -> startsWith(toLowerCase(spanValue), toLowerCase(ruleValue))
               [] operator = "ends_with" -> endsWith(toLowerCase(spanValue), toLowerCase(ruleValue))
               [] operator = "regex" -> RegexMatches(ruleValue, spanValue)
               [] OTHER -> includes(toLowerCase(spanValue), toLowerCase(ruleValue))

(***************************************************************************)
(* calculator: simulateSampling                                            *)
(***************************************************************************)
SpanOp == <<"s","p","a","n",".","o","p">>
SpanDescription == <<"s","p","a","n",".","d","e","s","c","r","i","p","t","i","o","n">>
Global == <<"g","l","o","b","a","l">>
OtherOp == <<"(","o","t","h","e","r",")">>

Digits == <<"0","1","2","3","4","5","6","7","8","9">>

RECURSIVE DigitsOf(_)
DigitsOf(i) ==
  IF i < 10 THEN <<Digits[i + 1]>> ELSE Append(DigitsOf(i \div 10), Digits[(i % 10) + 1])

RECURSIVE GroupThousands(_)
GroupThousands(ds) ==
  IF Len(ds) <= 3 THEN ds
  ELSE GroupThousands(SubSeq(ds, 1, Len(ds) - 3)) \o <<",">> \o SubSeq(ds, Len(ds) - 2, Len(ds))

\* 10^e
RECURSIVE Pow10(_)
Pow10(e) == IF e = 0 THEN 1 ELSE 10 * Pow10(e - 1)

\* the decimal digits of i, padded with zeros on the left to width w
RECURSIVE PadLeft(_, _)
PadLeft(ds, w) == IF Len(ds) >= w THEN ds ELSE PadLeft(<<"0">> \o ds, w)

RECURSIVE StripTrailingZeros(_)
StripTrailingZeros(ds) ==
  IF ds # << >> /\ ds[Len(ds)] = "0" THEN StripTrailingZeros(SubSeq(ds, 1, Len(ds) - 1)) ELSE ds

\* |q| in units of 10^-f, rounded to the nearest unit, a tie away from zero
RoundedUnits(q, f) ==
  LET a == Abs(q.n)
      whole == a \div q.d
      rem == a % q.d
  IN  whole * Pow10(f) + (2 * rem * Pow10(f) + q.d) \div (2 * q.d)

\* Number.prototype.toLocaleString (en-US): grouped integer part, at most
\* three fraction digits, trailing zeros dropped
toLocaleString(q) ==
  IF ~IsFinite(q) THEN <<"N","a","N">>
  ELSE LET units == RoundedUnits(q, 3)
           int == GroupThousands(DigitsOf(units \div 1000))
           frac == StripTrailingZeros(PadLeft(DigitsOf(units % 1000), 3))
           sign == IF q.n < 0 THEN <<"-">> ELSE << >>
       IN  sign \o int \o (IF frac = << >> THEN << >> ELSE <<".">> \o frac)

\* item.count || 0
CountOf(item) ==
  IF "count" \in DOMAIN item /\ IsFinite(item.count) /\ item.count.n # 0
  THEN item.count ELSE Num(0)

\* rawData.reduce((sum, item) => sum + (item.count || 0), 0)
RECURSIVE SumOfGroups(_)
SumOfGroups(items) ==
  IF items = << >> THEN Num(0)
  ELSE Add(SumOfGroups(SubSeq(items, 1, Len(items) - 1)), CountOf(items[Len(items)]))

\* rawData._totalCountFromMeta !== undefined
HasDeclaredTotal(data) == "_totalCountFromMeta" \in DOMAIN data

\* mutant: a declared total below the sum of the groups is ignored
MutTotalRawCountClamped(data) ==
  IF HasDeclaredTotal(data) /\ Ge(data._totalCountFromMeta, SumOfGroups(data.items))
  THEN data._totalCountFromMeta ELSE SumOfGroups(data.items)

TotalRawCountOf(data) ==
  IF HasDeclaredTotal(data) THEN data._totalCountFromMeta ELSE SumOfGroups(data.items)

\* mutant: the missing spans are the whole total
MutMissingSpansOfTotal(data) == TotalRawCountOf(data)

\* missingSpans = totalRawCount - sumOfGroups
MissingSpansOf(data) == Sub(TotalRawCountOf(data), SumOfGroups(data.items))

\* mutant: any difference, also a negative one, counts as missing spans
MutHasMissingSpansNonZero(missingSpans) == missingSpans # Num(0)

HasMissingSpans(missingSpans) == Gt(missingSpans, Num(0))

IsEquals(rule) == "operator" \in DOMAIN rule /\ rule.operator = "equals"

\* the comparator handed to Array.prototype.sort
CompareRules(a, b) ==
  IF IsEquals(a) /\ ~IsEquals(b) THEN -1
  ELSE IF IsEquals(b) /\ ~IsEquals(a) THEN 1
  ELSE 0

\* Array.prototype.sort is stable: an element goes after the last element
\* that does not compare greater than it.
RECURSIVE InsertRule(_, _)
InsertRule(sorted, rule) ==
  IF sorted = << >> THEN <<rule>>
  ELSE IF CompareRules(sorted[Len(sorted)], rule) <= 0 THEN Append(sorted, rule)
  ELSE Append(InsertRule(SubSeq(sorted, 1, Len(sorted) - 1), rule), sorted[Len(sorted)])

RECURSIVE SortRules(_)
SortRules(rs) ==
  IF rs = << >> THEN << >>
  ELSE InsertRule(SortRules(SubSeq(rs, 1, Len(rs) - 1)), rs[Len(rs)])

\* mutant: the rules are walked in the order given
MutSortedRulesUnsorted(rs) == rs

\* mutant: equals first, but the sort turns each class around
MutSortedRulesUnstable(rs) ==
  LET Reverse(q) == [i \in DOMAIN q |-> q[Len(q) + 1 - i]]
  IN  Reverse(SelectSeq(rs, IsEquals)) \o Reverse(SelectSeq(rs, LAMBDA rule : ~IsEquals(rule)))

\* [...rules].sort(comparator)
SortedRules(rs) == SortRules(rs)

\* mutant: the loop does not break, the last matching rule stays
MutFirstMatchLast(item, sortedRules) ==
  IF \E i \in DOMAIN sortedRules : matchesRule(item, sortedRules[i])
  THEN CHOOSE i \in DOMAIN sortedRules :
         /\ matchesRule(item, sortedRules[i])
         /\ \A j \in (i + 1)..Len(sortedRules) : ~matchesRule(item, sortedRules[j])
  ELSE 0

\* index of the rule the for-loop breaks on, 0 when it runs to the end
FirstMatch(item, sortedRules) ==
  IF \E i \in DOMAIN sortedRules : matchesRule(item, sortedRules[i])
  THEN CHOOSE i \in DOMAIN sortedRules :
         /\ matchesRule(item, sortedRules[i])
         /\ \A j \in 1..(i - 1) : ~matchesRule(item, sortedRules[j])
  ELSE 0

\* mutant: the rule's rate is taken as the share to drop
MutSamplingRateOfDropShare(item, sortedRules, gRate) ==
  LET m == FirstMatch(item, sortedRules)
  IN  IF m = 0 THEN gRate ELSE Div(Sub(Num(100), sortedRules[m].rate), Num(100))

\* samplingRate = rule.rate / 100 of the first match, else globalRate
SamplingRateOf(item, sortedRules, gRate) ==
  LET m == FirstMatch(item, sortedRules)
  IN  IF m = 0 THEN gRate ELSE Div(sortedRules[m].rate, Num(100))

\* `${matchedRule.attribute}:${matchedRule.value}` or 'global'
MatchedRuleOf(item, sortedRules) ==
  LET m == FirstMatch(item, sortedRules)
  IN  IF m = 0 THEN Global ELSE sortedRules[m].attribute \o <<":">> \o sortedRules[m].value

\* mutant: the expansion factor is left out
MutSimulatedCountNoFactor(count, samplingRate, factor) == Mul(count, samplingRate)

SimulatedCountOf(count, samplingRate, factor) == Mul(Mul(count, samplingRate), factor)

\* the object pushed for one group: { ...item, rawCount, simulatedCount, ... }
BreakdownRow(item, sortedRules, factor, gRate) ==
  LET count == CountOf(item)
      samplingRate == SamplingRateOf(item, sortedRules, gRate)
  IN  [rawCount |-> count,
       simulatedCount |-> SimulatedCountOf(count, samplingRate, factor),
       samplingRate |-> samplingRate,
       matchedRule |-> MatchedRuleOf(item, sortedRules)] @@ item

\* mutant: only the groups a rule matched get a row
MutGroupRowsMatchedOnly(items, sortedRules, factor, gRate) ==
  SelectSeq([i \in DOMAIN items |-> BreakdownRow(items[i], sortedRules, factor, gRate)],
            LAMBDA row : row.matchedRule # Global)

\* the rows pushed by rawData.forEach
GroupRows(items, sortedRules, factor, gRate) ==
  [i \in DOMAIN items |-> BreakdownRow(items[i], sortedRules, factor, gRate)]

RECURSIVE SumSimulated(_)
SumSimulated(rows) ==
  IF rows = << >> THEN Num(0)
  ELSE Add(SumSimulated(SubSeq(rows, 1, Len(rows) - 1)), rows[Len(rows)].simulatedCount)

\* mutant: the missing spans go through the rule loop like a group
MutOtherRowRuled(missingSpans, factor, gRate) ==
  LET asItem == [attrs |-> (SpanOp :> OtherOp)]
      sorted == SortedRules(rules)
      rate == SamplingRateOf(asItem, sorted, gRate)
  IN  [attrs |-> asItem.attrs,
       rawCount |-> missingSpans,
       simulatedCount |-> Mul(Mul(missingSpans, rate), factor),
       samplingRate |-> rate,
       matchedRule |-> MatchedRuleOf(asItem, sorted)]

\* the breakdown entry pushed for the missing spans
OtherRow(missingSpans, factor, gRate) ==
  [attrs |-> (SpanOp :> OtherOp) @@
             (SpanDescription :>
                <<"O","t","h","e","r"," ","s","p","a","n","s"," ","(">>
                \o toLocaleString(missingSpans)
                \o <<" ","s","p","a","n","s"," ","n","o","t"," ","i","n"," ",
                     "t","o","p"," ","1","0","0"," ","g","r","o","u","p","s",")">>),
   rawCount |-> missingSpans,
   simulatedCount |-> Mul(Mul(missingSpans, gRate), factor),
   samplingRate |-> gRate,
   matchedRule |-> Global]

\* mutant: the simulated missing spans are not added to the total
MutTotalSimulatedGroupsOnly(rows, missingSpans, other) == SumSimulated(rows)

\* totalSimulatedCount += simulatedCount, += missingSimulatedCount
TotalSimulatedOf(rows, missingSpans, other) ==
  IF HasMissingSpans(missingSpans)
  THEN Add(SumSimulated(rows), other.simulatedCount)
  ELSE SumSimulated(rows)

\* mutant: the reduction is left a fraction, not a percentage
MutCostReductionFraction(totalRawCount, totalSimulatedCount) ==
  LET costReduction ==
        IF Gt(totalRawCount, Num(0))
        THEN Div(Sub(totalRawCount, totalSimulatedCount), totalRawCount)
        ELSE Num(0)
  IN  MathMax(Num(0), costReduction)

\* mutant: the reduction is returned without Math.max
MutCostReductionUnclamped(totalRawCount, totalSimulatedCount) ==
  IF Gt(totalRawCount, Num(0))
  THEN Mul(Div(Sub(totalRawCount, totalSimulatedCount), totalRawCount), Num(100))
  ELSE Num(0)

CostReductionOf(totalRawCount, totalSimulatedCount) ==
  LET costReduction ==
        IF Gt(totalRawCount, Num(0))
        THEN Mul(Div(Sub(totalRawCount, totalSimulatedCount), totalRawCount), Num(100))
        ELSE Num(0)
  IN  MathMax(Num(0), costReduction)

daysInMonth == 30

\* mutant: the period is divided by the month
MutPeriodMultiplierInverted(d) == Div(d, Num(daysInMonth))

PeriodMultiplier(d) == Div(Num(daysInMonth), d)

MonthlyOf(total, d) == Mul(total, PeriodMultiplier(d))

EmptyResult ==
  [totalRawCount |-> Num(0), totalSimulatedCount |-> Num(0), breakdown |-> << >>,
   costReduction |-> Num(0), monthlyRawCount |-> Num(0), monthlySimulatedCount |-> Num(0)]

\* Array.isArray(rawData): an array is modelled by its elements, items, and
\* the extra properties attached to it
IsArray(data) == "items" \in DOMAIN data

\* mutant: only a value that is no array is answered with the empty result
MutIsEmptyInputNoArrayOnly(data) == ~IsArray(data)

\* !Array.isArray(rawData) || rawData.length === 0
IsEmptyInput(data) == ~IsArray(data) \/ Len(data.items) = 0

\* mutant: the rules are sorted in place
MutRulesAfterSimulateSorted(rs) == SortedRules(rs)

\* the caller's rule array after the call: [...rules] sorts a copy
RulesAfterSimulate(rs) == rs

\* mutant: the derived fields are written into the groups themselves
MutRawDataAfterSimulateExtended(data, rs, factor, gRate) ==
  IF IsEmptyInput(data) THEN data
  ELSE [data EXCEPT !.items = GroupRows(data.items, SortedRules(rs), factor, gRate)]

\* the caller's dataset after the call: { ...item } extends a copy
RawDataAfterSimulate(data, rs, factor, gRate) == data

simulateSampling(data, rs, factor, gRate, d) ==
  IF IsEmptyInput(data) THEN EmptyResult
  ELSE
    LET totalRawCount == TotalRawCountOf(data)
        missingSpans == MissingSpansOf(data)
        sortedRules == SortedRules(rs)
        rows == GroupRows(data.items, sortedRules, factor, gRate)
        other == OtherRow(missingSpans, factor, gRate)
        breakdown == IF HasMissingSpans(missingSpans) THEN Append(rows, other) ELSE rows
        totalSimulatedCount == TotalSimulatedOf(rows, missingSpans, other)
    IN  [totalRawCount |-> totalRawCount,
         totalSimulatedCount |-> totalSimulatedCount,
         breakdown |-> breakdown,
         costReduction |-> CostReductionOf(totalRawCount, totalSimulatedCount),
         monthlyRawCount |-> MonthlyOf(totalRawCount, d),
         monthlySimulatedCount |-> MonthlyOf(totalSimulatedCount, d)]

(***************************************************************************)
(* ui-utils: getActiveRules                                                *)
(***************************************************************************)
\* rules.filter(rule => rule.value && rule.value.trim() !== '' && rule.attribute)
getActiveRules(rs) ==
  SelectSeq(rs, LAMBDA rule :
    Truthy(rule, "value") /\ trim(rule.value) # << >> /\ Truthy(rule, "attribute"))

(***************************************************************************)
(* calculator: formatNumber                                                *)
(***************************************************************************)
\* Number.prototype.toFixed(f) of a number that is not negative
toFixed(q, f) ==
  LET units == RoundedUnits(q, f)
  IN  DigitsOf(units \div Pow10(f)) \o <<".">> \o PadLeft(DigitsOf(units % Pow10(f)), f)

Billion == 1000000000
Million == 1000000
Thousand == 1000

\* mutant: the thresholds are exclusive
MutFormatNumberExclusive(value) ==
  IF Gt(value, Num(Billion)) THEN toFixed(Div(value, Num(Billion)), 2) \o <<"B">>
  ELSE IF Gt(value, Num(Million)) THEN toFixed(Div(value, Num(Million)), 2) \o <<"M">>
  ELSE IF Gt(value, Num(Thousand)) THEN toFixed(Div(value, Num(Thousand)), 2) \o <<"K">>
  ELSE toLocaleString(value)

formatNumber(value) ==
  IF Ge(value, Num(Billion)) THEN toFixed(Div(value, Num(Billion)), 2) \o <<"B">>
  ELSE IF Ge(value, Num(Million)) THEN toFixed(Div(value, Num(Million)), 2) \o <<"M">>
  ELSE IF Ge(value, Num(Thousand)) THEN toFixed(Div(value, Num(Thousand)), 2) \o <<"K">>
  ELSE toLocaleString(value)

(***************************************************************************)
(* The caller: it assembles the arguments of simulateSampling one piece at *)
(* a time and calls it.  result is NoResult until the call has returned    *)
(* for the current arguments.                                              *)
(***************************************************************************)
MaxGroups == 2
MaxRules == 2

DeclaredTotalPool == { Num(0), Num(700) }
ExpansionFactorPool == { Num(1), Num(5) }
GlobalRatePool == { Rat(1, 2), Num(1) }
DaysPool == { Num(7), Num(30), Num(90) }

Item(op, count) ==
  [attrs |-> (SpanOp :> op) @@ (SpanDescription :> << >>), count |-> Num(count)]

ItemPool ==
  { Item(<<"D","B">>, 2),
    Item(<<"d","b",".","g","e","t">>, 1),
    Item(<<"D","B">>, 0) }

Rule(attribute, operator, value, rate) ==
  [attribute |-> attribute, operator |-> operator, value |-> value, rate |-> Num(rate)]

\* "DB" is matched by both 'equals' rules and by the first 'contains' rule,
\* "db.get" by both 'contains' rules; the last rule would also match the
\* text "(other)"
RulePool ==
  { Rule(SpanOp, "equals", <<"d","b">>, 10),
    Rule(SpanOp, "equals", <<"D","B">>, 25),
    Rule(SpanOp, "contains", <<"D">>, 50),
    Rule(SpanOp, "contains", <<"t">>, 0) }

NoResult == [returned |-> FALSE]

\* a dataset that is no array: null
NullData == [null |-> TRUE]

InitSim ==
  /\ rawData \in { [items |-> << >>], NullData }
  /\ rules = << >>
  /\ expansionFactor = Num(1)
  /\ globalRate = Num(1)
  /\ days = Num(30)
  /\ result = NoResult

PushGroup ==
  /\ IsArray(rawData)
  /\ Len(rawData.items) < MaxGroups
  /\ \E item \in ItemPool :
       rawData' = [rawData EXCEPT !.items = Append(@, item)]
  /\ result' = NoResult
  /\ UNCHANGED <<rules, expansionFactor, globalRate, days, matchVars, formatVars, pageVars, fetchVars>>

AttachTotal ==
  /\ IsArray(rawData)
  /\ ~HasDeclaredTotal(rawData)
  /\ \E t \in DeclaredTotalPool :
       rawData' = [items |-> rawData.items, _totalCountFromMeta |-> t]
  /\ result' = NoResult
  /\ UNCHANGED <<rules, expansionFactor, globalRate, days, matchVars, formatVars, pageVars, fetchVars>>

PushRule ==
  /\ Len(rules) < MaxRules
  /\ \E rule \in RulePool : rules' = Append(rules, rule)
  /\ result' = NoResult
  /\ UNCHANGED <<rawData, expansionFactor, globalRate, days, matchVars, formatVars, pageVars, fetchVars>>

SetExpansionFactor ==
  /\ \E f \in ExpansionFactorPool \ {expansionFactor} : expansionFactor' = f
  /\ result' = NoResult
  /\ UNCHANGED <<rawData, rules, globalRate, days, matchVars, formatVars, pageVars, fetchVars>>

SetGlobalRate ==
  /\ \E g \in GlobalRatePool \ {globalRate} : globalRate' = g
  /\ result' = NoResult
  /\ UNCHANGED <<rawData, rules, expansionFactor, days, matchVars, formatVars, pageVars, fetchVars>>

SetDays ==
  /\ \E d \in DaysPool \ {days} : days' = d
  /\ result' = NoResult
  /\ UNCHANGED <<rawData, rules, expansionFactor, globalRate, matchVars, formatVars, pageVars, fetchVars>>

Calculate ==
  /\ result = NoResult
  /\ result' = simulateSampling(rawData, rules, expansionFactor, globalRate, days)
  /\ rawData' = RawDataAfterSimulate(rawData, rules, expansionFactor, globalRate)
  /\ rules' = RulesAfterSimulate(rules)
  /\ UNCHANGED <<expansionFactor, globalRate, days, matchVars, formatVars, pageVars, fetchVars>>

\* rules the panel would not pass on, an invalid pattern, and rules that match
EdgeRulePool ==
  { Rule(SpanOp, "regex", <<"(">>, 10),
    Rule(SpanOp, "regex", <<"^","d">>, 20),
    Rule(SpanOp, "contains", << >>, 30),
    Rule(<< >>, "contains", <<"D">>, 40),
    Rule(SpanOp, "contains", <<" ">>, 60),
    Rule(SpanOp, "equals", <<"d","b">>, 80),
    Rule(SpanOp, "equals", <<"D","B">>, 90) }

PushEdgeRule ==
  /\ Len(rules) < MaxRules
  /\ \E rule \in EdgeRulePool : rules' = Append(rules, rule)
  /\ result' = NoResult
  /\ UNCHANGED <<rawData, expansionFactor, globalRate, days, matchVars, formatVars, pageVars, fetchVars>>

\* parseFloat(expansionFactorInput.value) || 1.0 keeps a negative number
SignedFactorPool == { Num(-1), Num(1), Num(2) }

SetSignedFactor ==
  /\ \E f \in SignedFactorPool \ {expansionFactor} : expansionFactor' = f
  /\ result' = NoResult
  /\ UNCHANGED <<rawData, rules, globalRate, days, matchVars, formatVars, pageVars, fetchVars>>

\* totals below, equal to and above the sum of two groups
AnyTotalPool == { Num(0), Num(3), Num(700) }

AttachAnyTotal ==
  /\ IsArray(rawData)
  /\ ~HasDeclaredTotal(rawData)
  /\ \E t \in AnyTotalPool :
       rawData' = [items |-> rawData.items, _totalCountFromMeta |-> t]
  /\ result' = NoResult
  /\ UNCHANGED <<rules, expansionFactor, globalRate, days, matchVars, formatVars, pageVars, fetchVars>>

(***************************************************************************)
(* The caller of matchesRule: a record, a rule, the call                   *)
(***************************************************************************)
Record(value) == [attrs |-> (SpanOp :> value), count |-> Num(1)]

\* the last record has no span.op at all
RecordPool ==
  { Record(<< >>),
    Record(<<"d","b">>),
    Record(<<"D","B">>),
    Record(<<" ","d","b">>),
    Record(<<" ","d","b"," ">>),
    Record(<<"d","b",".","q","u","e","r","y">>),
    Record(<<"x","d","b">>),
    [attrs |-> (SpanDescription :> <<"d","b">>), count |-> Num(1)] }

NoField == [k \in {} |-> << >>]

AttributeFields == { NoField, "attribute" :> << >>, "attribute" :> SpanOp }

OperatorFields ==
  { NoField, "operator" :> "" } \cup
  { "operator" :> o : o \in {"equals", "contains", "starts_with", "ends_with", "regex", "fuzzy"} }

ValueFields ==
  { NoField } \cup
  { "value" :> v : v \in { << >>, <<" ">>, <<"d","b">>, <<"D","B">>, <<" ","d","b"," ">>,
                           <<"d">>, <<"B">>, <<"Q","u","e","r","y">>, <<"x">>,
                           <<"(">>, <<"^","d">>, <<"b","$">>, <<"d",".">> } }

MatchRulePool ==
  { a @@ o @@ v @@ [rate |-> Num(50)] :
      a \in AttributeFields, o \in OperatorFields, v \in ValueFields }

NoAnswer == [returned |-> FALSE]

InitMatch ==
  /\ matchItem = Record(<<"d","b">>)
  /\ matchRule = [rate |-> Num(50)]
  /\ matched = NoAnswer

SetMatchItem ==
  /\ \E item \in RecordPool \ {matchItem} : matchItem' = item
  /\ matched' = NoAnswer
  /\ UNCHANGED <<matchRule, simVars, formatVars, pageVars, fetchVars>>

SetMatchRule ==
  /\ \E rule \in MatchRulePool \ {matchRule} : matchRule' = rule
  /\ matched' = NoAnswer
  /\ UNCHANGED <<matchItem, simVars, formatVars, pageVars, fetchVars>>

Match ==
  /\ matched = NoAnswer
  /\ matched' = [returned |-> TRUE, value |-> matchesRule(matchItem, matchRule)]
  /\ UNCHANGED <<matchItem, matchRule, simVars, formatVars, pageVars, fetchVars>>

(***************************************************************************)
(* The caller of formatNumber: a number, the call                          *)
(***************************************************************************)
MaxMantissa == 9

\* whole numbers around every power of ten, halves, negative numbers
FormatPool ==
  { Num(m * Pow10(e) + off) : m \in 1..MaxMantissa, e \in 0..8, off \in {-1, 0, 1} } \cup
  { Rat(2 * m * Pow10(e) + 1, 2) : m \in 1..MaxMantissa, e \in 0..3 } \cup
  { Num(-(m * Pow10(e))) : m \in 1..MaxMantissa, e \in 0..3 } \cup
  { Num(Billion - 1), Num(Billion), Num(Billion + 1), Num(3 * (Billion \div 2)), Num(2 * Billion) }

NoText == [returned |-> FALSE]

InitFormat ==
  /\ num = Num(0)
  /\ formatted = NoText

SetNum ==
  /\ \E value \in FormatPool \ {num} : num' = value
  /\ formatted' = NoText
  /\ UNCHANGED <<simVars, matchVars, pageVars, fetchVars>>

Format ==
  /\ formatted = NoText
  /\ formatted' = [returned |-> TRUE, text |-> formatNumber(num)]
  /\ UNCHANGED <<num, simVars, matchVars, pageVars, fetchVars>>

(***************************************************************************)
(* app: the breakdown table, its search box and its page buttons           *)
(***************************************************************************)
itemsPerPage == 50

\* Math.ceil(n / itemsPerPage)
TotalPages(n) == (n + itemsPerPage - 1) \div itemsPerPage

\* the rows a calculation hands to renderBreakdown, by descending rawCount:
\* operations "db", "http" and "cache" in turn
BreakdownRow3(i, n) ==
  [attrs |-> (SpanOp :> (CASE i % 3 = 0 -> <<"d","b">>
                           [] i % 3 = 1 -> <<"h","t","t","p">>
                           [] OTHER -> <<"c","a","c","h","e">>)) @@
             (SpanDescription :> << >>),
   rawCount |-> Num(n - i)]

BreakdownOf(n) == [i \in 1..n |-> BreakdownRow3(i, n)]

\* at most 100 groups and the "(other)" row
MaxRows == 101

RowCounts == { n \in 1..MaxRows : n % 10 \in {0, 1, 2} }

\* what is typed into the search box
QueryPool == { << >>, <<" ">>, <<"D","B">>, <<"h","t","t","p"," ">>, <<"c","a">>, <<"z">> }

\* the attributes of a row joined with ' ', lower-cased: thirteen
\* attributes, of which the rows of the model carry the first two
SearchableText(item) ==
  toLowerCase(StringOr(item.attrs, SpanOp) \o <<" ">> \o StringOr(item.attrs, SpanDescription)
              \o [i \in 1..11 |-> " "])

\* filteredBreakdownData.slice(startIndex, endIndex) of the page
PageSlice(rows, page) ==
  LET startIndex == (page - 1) * itemsPerPage
      endIndex == startIndex + itemsPerPage
  IN  SubSeq(rows, startIndex + 1, IF endIndex < Len(rows) THEN endIndex ELSE Len(rows))

\* renderBreakdownPage: the rows put into the container
RenderedPage(rows, page) == IF rows = << >> THEN << >> ELSE PageSlice(rows, page)

InitPages ==
  /\ breakdownData = << >>
  /\ filteredBreakdownData = << >>
  /\ currentPage = 1
  /\ searchValue = << >>
  /\ pageItems = << >>

\* renderBreakdown(result.breakdown) at the end of a calculation
RenderBreakdown ==
  /\ \E n \in RowCounts :
       /\ breakdownData' = BreakdownOf(n)
       /\ filteredBreakdownData' = BreakdownOf(n)
       /\ pageItems' = RenderedPage(BreakdownOf(n), 1)
  /\ currentPage' = 1
  /\ searchValue' = << >>
  /\ UNCHANGED <<simVars, matchVars, formatVars, fetchVars>>

\* the input listener of the search box: filterAndPaginateBreakdown
SearchInput ==
  /\ \E typed \in QueryPool :
       LET searchQuery == trim(typed)
           query == toLowerCase(searchQuery)
           kept == IF searchQuery # << >>
                   THEN SelectSeq(breakdownData, LAMBDA item : includes(SearchableText(item), query))
                   ELSE breakdownData
       IN  /\ searchValue' = typed
           /\ IF breakdownData = << >>
              THEN UNCHANGED <<filteredBreakdownData, currentPage, pageItems>>
              ELSE /\ filteredBreakdownData' = kept
                   /\ currentPage' = 1
                   /\ pageItems' = RenderedPage(kept, 1)
  /\ UNCHANGED <<breakdownData, simVars, matchVars, formatVars, fetchVars>>

\* the click listener of the previous-page button
PrevPage ==
  /\ currentPage > 1
  /\ currentPage' = currentPage - 1
  /\ pageItems' = RenderedPage(filteredBreakdownData, currentPage - 1)
  /\ UNCHANGED <<breakdownData, filteredBreakdownData, searchValue, simVars, matchVars, formatVars, fetchVars>>

\* mutant: the last page is not the limit
MutCanGoNextInclusive(page, totalPages) == page <= totalPages

\* currentPage < totalPages
CanGoNext(page, totalPages) == page < totalPages

\* the click listener of the next-page button
NextPage ==
  /\ CanGoNext(currentPage, TotalPages(Len(filteredBreakdownData)))
  /\ currentPage' = currentPage + 1
  /\ pageItems' = RenderedPage(filteredBreakdownData, currentPage + 1)
  /\ UNCHANGED <<breakdownData, filteredBreakdownData, searchValue, simVars, matchVars, formatVars, fetchVars>>

(***************************************************************************)
(* app: handleFetchData, handleSpanDataSuccess and the sample-rates panel  *)
(***************************************************************************)
\* the project input: empty for all projects, "a" an option of the
\* datalist with a data-id, "b" a slug typed by hand
AllProjects == ""
ProjectPool == { AllProjects, "a", "b" }
HasProjectId(project) == project = "a"

\* what fetchSpanUsage delivers for a project
SpanDataOf(project) ==
  CASE project = "a" -> [items |-> << Item(<<"D","B">>, 2) >>]
    [] project = "b" -> [items |-> << Item(<<"d","b",".","g","e","t">>, 1) >>]
    [] OTHER -> [items |-> << Item(<<"D","B">>, 2), Item(<<"d","b",".","g","e","t">>, 1) >>,
                 _totalCountFromMeta |-> Num(700)]

NoResponse == [kind |-> "none"]

ResponsesOf(project) ==
  { [kind |-> "error"],
    [kind |-> "data", data |-> [items |-> << >>]],
    [kind |-> "data", data |-> SpanDataOf(project)] }

NoCall == [called |-> FALSE]

InitFetch ==
  /\ fetchPc = "idle"
  /\ fetchProject = AllProjects
  /\ response = NoResponse
  /\ fetchBtnDisabled = FALSE
  /\ spinnerHidden = TRUE
  /\ errorVisible = FALSE
  /\ sampleRequests = {}
  /\ sampleRatesDisplay = FALSE
  /\ sampleRatesContent = "nothing"
  /\ dataProject = "none"
  /\ simulatorArgs = NoCall

\* parseInt(dateRangeSelect.value, 10)
FetchDaysPool == { Num(7), Num(30) }

\* the await the handler reaches once the organization is known
FetchStep(project) == IF HasProjectId(project) THEN "fetchById" ELSE "fetch"

\* the click on the fetch button, up to the first await
ClickFetch ==
  /\ ~fetchBtnDisabled
  /\ fetchPc = "idle"
  /\ \E orgTyped \in BOOLEAN, project \in ProjectPool :
       /\ fetchProject' = project
       /\ fetchPc' = IF orgTyped THEN FetchStep(project) ELSE "detectOrg"
  /\ \E d \in FetchDaysPool : days' = d
  /\ fetchBtnDisabled' = TRUE
  /\ spinnerHidden' = FALSE
  /\ errorVisible' = FALSE
  /\ UNCHANGED <<rawData, rules, expansionFactor, globalRate, result, response,
                 sampleRequests, sampleRatesDisplay, sampleRatesContent, dataProject,
                 simulatorArgs, matchVars, formatVars, pageVars>>

\* mutant: the loading state is cleared at the end of the function and in
\* the catch block, which the two early returns do not reach
MutClearsLoadingNotOnReturn(exit) == exit \notin {"orgFailed", "projectId"}

\* finally { setFetchLoadingState(fetchDataBtn, fetchSpinner, false) }
ClearsLoading(exit) == TRUE

\* the handler has left the try block by the exit named
Finish(exit) ==
  /\ fetchPc' = "idle"
  /\ response' = NoResponse
  /\ fetchBtnDisabled' = IF ClearsLoading(exit) THEN FALSE ELSE fetchBtnDisabled
  /\ spinnerHidden' = IF ClearsLoading(exit) THEN TRUE ELSE spinnerHidden

\* getOrgSlugFromCurrentTab resolves, loadProjects is awaited
DetectOrgResolve ==
  /\ fetchPc = "detectOrg"
  /\ fetchPc' = "loadProjects"
  /\ UNCHANGED <<simVars, matchVars, formatVars, pageVars, fetchProject, response,
                 fetchBtnDisabled, spinnerHidden, errorVisible, sampleRequests,
                 sampleRatesDisplay, sampleRatesContent, dataProject, simulatorArgs>>

\* getOrgSlugFromCurrentTab rejects: showError and return
DetectOrgReject ==
  /\ fetchPc = "detectOrg"
  /\ errorVisible' = TRUE
  /\ Finish("orgFailed")
  /\ UNCHANGED <<simVars, matchVars, formatVars, pageVars, fetchProject, sampleRequests,
                 sampleRatesDisplay, sampleRatesContent, dataProject, simulatorArgs>>

\* loadProjects returns; it catches its own errors
LoadProjectsDone ==
  /\ fetchPc = "loadProjects"
  /\ fetchPc' = FetchStep(fetchProject)
  /\ UNCHANGED <<simVars, matchVars, formatVars, pageVars, fetchProject, response,
                 fetchBtnDisabled, spinnerHidden, errorVisible, sampleRequests,
                 sampleRatesDisplay, sampleRatesContent, dataProject, simulatorArgs>>

\* fetchSpanUsage settles
FetchSettles ==
  /\ fetchPc \in {"fetch", "fetchById"}
  /\ response = NoResponse
  /\ \E r \in ResponsesOf(fetchProject) : response' = r
  /\ UNCHANGED <<simVars, matchVars, formatVars, pageVars, fetchPc, fetchProject,
                 fetchBtnDisabled, spinnerHidden, errorVisible, sampleRequests,
                 sampleRatesDisplay, sampleRatesContent, dataProject, simulatorArgs>>

\* !spanData || spanData.length === 0
NoSpanData(spanData) == ~IsArray(spanData) \/ Len(spanData.items) = 0

\* mutant: an empty answer is stored like any other
MutSpanDataAfterSuccessAlways(current, spanData) == spanData

\* currentSpanData after handleSpanDataSuccess(spanData, ...)
SpanDataAfterSuccess(current, spanData) == IF NoSpanData(spanData) THEN current ELSE spanData

\* mutant: the rules survive a fetch
MutRulesAfterSuccessKept(rs, spanData) == rs

\* rules after handleSpanDataSuccess(spanData, ...)
RulesAfterSuccess(rs, spanData) == IF NoSpanData(spanData) THEN rs ELSE << >>

\* the handler resumes after fetchSpanUsage: the catch block, or
\* handleSpanDataSuccess with fetchAndDisplaySampleRates up to its await,
\* then the finally block
FetchResumes ==
  /\ fetchPc \in {"fetch", "fetchById"}
  /\ response # NoResponse
  /\ IF response.kind = "error"
     THEN /\ errorVisible' = TRUE
          /\ Finish("error")
          /\ UNCHANGED <<rawData, rules, dataProject, sampleRequests,
                         sampleRatesDisplay, sampleRatesContent>>
     ELSE /\ rawData' = SpanDataAfterSuccess(rawData, response.data)
          /\ rules' = RulesAfterSuccess(rules, response.data)
          /\ Finish(IF fetchPc = "fetchById" THEN "projectId" ELSE "success")
          /\ IF NoSpanData(response.data)
             THEN /\ errorVisible' = TRUE
                  /\ UNCHANGED <<dataProject, sampleRequests, sampleRatesDisplay, sampleRatesContent>>
             ELSE /\ dataProject' = fetchProject
                  /\ UNCHANGED errorVisible
                  /\ IF fetchProject = AllProjects
                     THEN /\ sampleRatesContent' = "message"
                          /\ sampleRatesDisplay' = TRUE
                          /\ UNCHANGED sampleRequests
                     ELSE /\ sampleRatesDisplay' = FALSE
                          /\ sampleRequests' = sampleRequests \cup {fetchProject}
                          /\ UNCHANGED sampleRatesContent
  /\ UNCHANGED <<expansionFactor, globalRate, days, result, fetchProject, simulatorArgs,
                 matchVars, formatVars, pageVars>>

\* mutant: an answer is rendered only for the project of the data shown
MutRendersFor(project, shown) == project = shown

\* renderSampleRates(result, projectSlugToUse) takes any answer
RendersFor(project, shown) == TRUE

\* a sample-rates request settles: Promise.race of fetchSampleRates and the
\* 30 s timeout, then renderSampleRates or the catch block
SampleRatesSettles ==
  /\ \E project \in sampleRequests : \E outcome \in {"rates", "empty", "failed"} :
       /\ sampleRequests' = sampleRequests \ {project}
       /\ IF outcome = "rates" /\ RendersFor(project, dataProject)
          THEN sampleRatesContent' = project /\ sampleRatesDisplay' = TRUE
          ELSE sampleRatesDisplay' = FALSE /\ UNCHANGED sampleRatesContent
  /\ UNCHANGED <<simVars, matchVars, formatVars, pageVars, fetchPc, fetchProject, response,
                 fetchBtnDisabled, spinnerHidden, errorVisible, dataProject, simulatorArgs>>

(***************************************************************************)
(* app: the rule list and handleCalculate                                  *)
(***************************************************************************)
\* createRule({attribute: 'span.op', operator: 'contains', value: '', rate: 100})
NewRule == Rule(SpanOp, "contains", << >>, 100)

handleAddRule(rs) == Append(rs, NewRule)

\* rules.filter(rule => rule.id !== ruleId), for the rule at index i
handleDeleteRule(rs, i) == SelectSeq([j \in DOMAIN rs |-> [at |-> j, rule |-> rs[j]]],
                                     LAMBDA e : e.at # i)

\* rule[field] = value for the value field of the rule at index i
handleRuleChange(rs, i, value) == [rs EXCEPT ![i].value = value]

\* what is typed into the value input of a rule
TypedValuePool == { <<" ">>, <<" ","D"," ">> }

\* rules in the list of the app
MaxAppRules == 1

HandleAddRule ==
  /\ Len(rules) < MaxAppRules
  /\ rules' = handleAddRule(rules)
  /\ UNCHANGED <<rawData, expansionFactor, globalRate, days, result,
                 matchVars, formatVars, pageVars, fetchVars>>

HandleDeleteRule ==
  /\ \E i \in DOMAIN rules :
       rules' = [j \in 1..(Len(rules) - 1) |-> handleDeleteRule(rules, i)[j].rule]
  /\ UNCHANGED <<rawData, expansionFactor, globalRate, days, result,
                 matchVars, formatVars, pageVars, fetchVars>>

HandleRuleChange ==
  /\ \E i \in DOMAIN rules : \E value \in TypedValuePool :
       rules' = handleRuleChange(rules, i, value)
  /\ UNCHANGED <<rawData, expansionFactor, globalRate, days, result,
                 matchVars, formatVars, pageVars, fetchVars>>

\* rule.value = valueInput.value.trim() for every rule; the inputs hold
\* what handleRuleChange stored
syncRuleValuesFromDOM(rs) == [i \in DOMAIN rs |-> [rs[i] EXCEPT !.value = trim(rs[i].value)]]

\* mutant: every rule of the list is handed to the simulator
MutActiveRulesOfAll(rs) == rs

\* const activeRules = getActiveRules(rules)
ActiveRulesOf(rs) == getActiveRules(rs)

\* parseFloat(expansionFactorInput.value) || 1.0
ExpansionFactorOr1(factor) == IF factor = Num(0) \/ factor = NotANumber THEN Num(1) ELSE factor

\* [...breakdown].sort((a, b) => b.rawCount - a.rawCount)
RECURSIVE SortedByRawCount(_)
SortedByRawCount(rows) ==
  IF rows = << >> THEN << >>
  ELSE LET first == Head(rows)
           rest == SortedByRawCount(Tail(rows))
       IN  SelectSeq(rest, LAMBDA row : Gt(row.rawCount, first.rawCount))
           \o << first >>
           \o SelectSeq(rest, LAMBDA row : ~Gt(row.rawCount, first.rawCount))

\* the click on the calculate button: the guard, the sync, the simulation
\* and renderBreakdown(result.breakdown)
HandleCalculate ==
  IF NoSpanData(rawData)
  THEN /\ errorVisible' = TRUE
       /\ UNCHANGED <<simVars, matchVars, formatVars, pageVars, fetchPc, fetchProject,
                      response, fetchBtnDisabled, spinnerHidden, sampleRequests,
                      sampleRatesDisplay, sampleRatesContent, dataProject, simulatorArgs>>
  ELSE LET synced == syncRuleValuesFromDOM(rules)
           activeRules == ActiveRulesOf(synced)
           factor == ExpansionFactorOr1(expansionFactor)
           simulated == simulateSampling(rawData, activeRules, factor, globalRate, days)
           sorted == SortedByRawCount(simulated.breakdown)
       IN  /\ rules' = synced
           /\ rawData' = RawDataAfterSimulate(rawData, activeRules, factor, globalRate)
           /\ simulatorArgs' = [called |-> TRUE, data |-> rawData, rules |-> activeRules]
           /\ result' = simulated
           /\ breakdownData' = sorted
           /\ filteredBreakdownData' = sorted
           /\ currentPage' = 1
           /\ searchValue' = << >>
           /\ pageItems' = RenderedPage(sorted, 1)
           /\ errorVisible' = FALSE
           /\ UNCHANGED <<expansionFactor, globalRate, days, matchVars, formatVars,
                          fetchPc, fetchProject, response, fetchBtnDisabled, spinnerHidden,
                          sampleRequests, sampleRatesDisplay, sampleRatesContent, dataProject>>

(***************************************************************************)
(* Specifications                                                          *)
(***************************************************************************)
Init == InitSim /\ InitMatch /\ InitFormat /\ InitPages /\ InitFetch

\* simulateSampling on the data the extension produces
Next ==
  \/ PushGroup
  \/ AttachTotal
  \/ PushRule
  \/ SetExpansionFactor
  \/ SetGlobalRate
  \/ SetDays
  \/ Calculate

Spec == Init /\ [][Next]_vars

\* simulateSampling on rules and factors the panel does not filter
NextEdge ==
  \/ PushGroup
  \/ PushEdgeRule
  \/ SetSignedFactor
  \/ Calculate

SpecEdge == Init /\ [][NextEdge]_vars

\* simulateSampling on declared totals on either side of the sum
NextTotals ==
  \/ PushGroup
  \/ AttachAnyTotal
  \/ PushRule
  \/ SetGlobalRate
  \/ SetSignedFactor
  \/ Calculate

SpecTotals == Init /\ [][NextTotals]_vars

\* matchesRule
NextMatch ==
  \/ SetMatchItem
  \/ SetMatchRule
  \/ Match

SpecMatch == Init /\ [][NextMatch]_vars

\* the breakdown table of the app
NextPages ==
  \/ RenderBreakdown
  \/ SearchInput
  \/ PrevPage
  \/ NextPage

SpecPages == Init /\ [][NextPages]_vars

\* the fetch button and the sample-rates panel of the app
NextFetch ==
  \/ ClickFetch
  \/ DetectOrgResolve
  \/ DetectOrgReject
  \/ LoadProjectsDone
  \/ FetchSettles
  \/ FetchResumes
  \/ SampleRatesSettles

SpecFetch == Init /\ [][NextFetch]_vars

\* every request settles and every continuation runs
SpecFetchLive ==
  /\ SpecFetch
  /\ WF_vars(DetectOrgResolve \/ DetectOrgReject)
  /\ WF_vars(LoadProjectsDone)
  /\ WF_vars(FetchSettles)
  /\ WF_vars(FetchResumes)

\* the app: fetching, the rule list and the calculation
NextApp ==
  \/ ClickFetch
  \/ DetectOrgResolve
  \/ DetectOrgReject
  \/ LoadProjectsDone
  \/ FetchSettles
  \/ FetchResumes
  \/ HandleAddRule
  \/ HandleDeleteRule
  \/ HandleRuleChange
  \/ HandleCalculate

SpecApp == Init /\ [][NextApp]_vars

\* formatNumber
NextFormat ==
  \/ SetNum
  \/ Format

SpecFormat == Init /\ [][NextFormat]_vars

(***************************************************************************)
(* Properties of the value returned by simulateSampling                    *)
(***************************************************************************)
Returned == result # NoResult
NonEmpty == IsArray(rawData) /\ Len(rawData.items) > 0
ReturnedNonEmpty == Returned /\ NonEmpty

\* the rule's label in a breakdown row
LabelOf(rule) == rule.attribute \o <<":">> \o rule.value

\* the product of three rationals, from their numerators and denominators
Product3(a, b, c) == Rat(a.n * b.n * c.n, a.d * b.d * c.d)

\* the rules of list rs that match item, by index
Hits(item, rs) == { k \in DOMAIN rs : matchesRule(item, rs[k]) }
Least(S) == CHOOSE k \in S : \A j \in S : k <= j

\* the synthetic row: no count of its own, operation "(other)"
IsOtherRow(row) == "count" \notin DOMAIN row /\ row.attrs[SpanOp] = OtherOp

\* totalRawCount minus the sum of the group counts
Gap == Sub(result.totalRawCount, SumOfGroups(rawData.items))

\* C1: for every group of a non-empty dataset the sampling rate is rate/100
\* of the first rule of the pre-ordered list that matches it, globalRate
\* when none matches, and simulatedCount = count * samplingRate *
\* expansionFactor.
C1_FirstMatchRateAndCount ==
  ReturnedNonEmpty =>
    \A i \in DOMAIN rawData.items :
      LET item == rawData.items[i]
          row == result.breakdown[i]
          ordered == SortedRules(rules)
          hits == Hits(item, ordered)
          expected == IF hits = {} THEN globalRate
                      ELSE Rat(ordered[Least(hits)].rate.n, ordered[Least(hits)].rate.d * 100)
      IN  /\ row.samplingRate = expected
          /\ row.simulatedCount = Product3(item.count, expected, expansionFactor)

\* a group matched by a rule beside one matched by none, expansion factor 5
C1_Witness ==
  /\ ReturnedNonEmpty
  /\ expansionFactor = Num(5)
  /\ \E i, j \in DOMAIN rawData.items :
       /\ Hits(rawData.items[i], rules) # {}
       /\ Hits(rawData.items[j], rules) = {}
       /\ rawData.items[i].count = Num(2)
       /\ rawData.items[j].count = Num(1)
       /\ Gt(result.breakdown[i].simulatedCount, Num(0))
       /\ result.breakdown[j].simulatedCount = Mul(globalRate, Num(5))

C4_DeclaredTotalIsUsed ==
  ReturnedNonEmpty =>
    result.totalRawCount =
      IF "_totalCountFromMeta" \in DOMAIN rawData
      THEN rawData._totalCountFromMeta
      ELSE SumOfGroups(rawData.items)

\* a declared total smaller than the sum of the groups is returned as is
C4_Witness ==
  /\ ReturnedNonEmpty
  /\ "_totalCountFromMeta" \in DOMAIN rawData
  /\ Gt(SumOfGroups(rawData.items), rawData._totalCountFromMeta)
  /\ result.totalRawCount = rawData._totalCountFromMeta

\* C5: the breakdown holds a synthetic "(other)" row iff totalRawCount minus
\* the sum of the group counts is positive; it is then the only such row,
\* the last row, and its rawCount is that difference.  No such row when the
\* declared total is absent, equal to or smaller than the sum.
C5_OtherRowIffGap ==
  ReturnedNonEmpty =>
    LET b == result.breakdown
        others == { i \in DOMAIN b : IsOtherRow(b[i]) }
    IN  /\ Gt(Gap, Num(0)) => (others = {Len(b)} /\ b[Len(b)].rawCount = Gap)
        /\ ~Gt(Gap, Num(0)) => others = {}
        /\ ("_totalCountFromMeta" \notin DOMAIN rawData) => others = {}
        /\ ("_totalCountFromMeta" \in DOMAIN rawData
              /\ Ge(SumOfGroups(rawData.items), rawData._totalCountFromMeta)) => others = {}

\* declared total 700 over groups that sum to 3: one last row of 697
C5_Witness ==
  /\ ReturnedNonEmpty
  /\ Gap = Num(697)
  /\ IsOtherRow(result.breakdown[Len(result.breakdown)])
  /\ result.breakdown[Len(result.breakdown)].rawCount = Num(697)

\* C6: the "(other)" row has samplingRate = globalRate, simulatedCount =
\* missing * globalRate * expansionFactor and label 'global' whatever the
\* rules are, and its simulatedCount is part of totalSimulatedCount.
C6_OtherRowUsesGlobalRate ==
  (ReturnedNonEmpty /\ Len(result.breakdown) = Len(rawData.items) + 1) =>
    LET b == result.breakdown
        other == b[Len(b)]
        groupRows == SubSeq(b, 1, Len(rawData.items))
    IN  /\ other.samplingRate = globalRate
        /\ other.simulatedCount = Product3(Gap, globalRate, expansionFactor)
        /\ other.matchedRule = Global
        /\ result.totalSimulatedCount = Add(SumSimulated(groupRows), other.simulatedCount)

\* a rule that would match the text "(other)" is defined at another rate
C6_Witness ==
  /\ ReturnedNonEmpty
  /\ Len(result.breakdown) = Len(rawData.items) + 1
  /\ LET other == result.breakdown[Len(result.breakdown)]
     IN  /\ \E k \in DOMAIN rules :
               /\ matchesRule([attrs |-> other.attrs], rules[k])
               /\ Div(rules[k].rate, Num(100)) # globalRate
         /\ Gt(other.simulatedCount, Num(0))
         /\ expansionFactor = Num(5)

\* C7: for a non-empty dataset row i of the breakdown carries group i's
\* attributes and count, matched or not; the breakdown is as long as the
\* dataset, or one longer when the reconciliation row is present.
C7_OneRowPerGroup ==
  ReturnedNonEmpty =>
    LET b == result.breakdown
        n == Len(rawData.items)
    IN  /\ Len(b) = IF Gt(Gap, Num(0)) THEN n + 1 ELSE n
        /\ \A i \in 1..n :
             /\ i <= Len(b)
             /\ ~IsOtherRow(b[i])
             /\ b[i].attrs = rawData.items[i].attrs
             /\ b[i].rawCount = rawData.items[i].count

\* two different groups, the second matched and the first not
C7_Witness ==
  /\ ReturnedNonEmpty
  /\ Len(rawData.items) = 2
  /\ rawData.items[1].attrs # rawData.items[2].attrs
  /\ rawData.items[1].count # rawData.items[2].count
  /\ Hits(rawData.items[1], rules) = {}
  /\ Hits(rawData.items[2], rules) # {}
  /\ Len(result.breakdown) = 2

\* C8: costReduction = max(0, (totalRawCount - totalSimulatedCount) /
\* totalRawCount * 100) when totalRawCount > 0, and 0 when totalRawCount
\* is 0.
C8_CostReductionFormula ==
  ReturnedNonEmpty =>
    LET raw == result.totalRawCount
        sim == result.totalSimulatedCount
        saved == raw.n * sim.d - sim.n * raw.d
    IN  result.costReduction =
          IF raw.n > 0
          THEN IF saved < 0 THEN Num(0)
               ELSE Rat(saved * raw.d * 100, raw.d * sim.d * raw.n)
          ELSE Num(0)

\* a declared total of 0 over groups that are simulated to a positive count
C8_Witness ==
  /\ ReturnedNonEmpty
  /\ result.totalRawCount = Num(0)
  /\ Gt(result.totalSimulatedCount, Num(0))
  /\ result.costReduction = Num(0)

\* C9: costReduction is never negative, and is exactly 0 whenever
\* totalSimulatedCount >= totalRawCount.
C9_CostReductionNeverNegative ==
  Returned =>
    /\ Ge(result.costReduction, Num(0))
    /\ Ge(result.totalSimulatedCount, result.totalRawCount) => result.costReduction = Num(0)

\* expansion factor 5 at a 100% global rate: simulated exceeds raw
C9_Witness ==
  /\ ReturnedNonEmpty
  /\ expansionFactor = Num(5)
  /\ globalRate = Num(1)
  /\ Gt(result.totalRawCount, Num(0))
  /\ Gt(result.totalSimulatedCount, result.totalRawCount)
  /\ result.costReduction = Num(0)

\* C10: monthlyRawCount * days = totalRawCount * 30 and
\* monthlySimulatedCount * days = totalSimulatedCount * 30; with days = 30
\* the monthly values are the period totals; days = 7 and totalRawCount =
\* 700 give monthlyRawCount = 3000.
C10_MonthlyProjection ==
  Returned =>
    /\ result.monthlyRawCount.n * days.n * result.totalRawCount.d
         = result.totalRawCount.n * 30 * result.monthlyRawCount.d * days.d
    /\ result.monthlySimulatedCount.n * days.n * result.totalSimulatedCount.d
         = result.totalSimulatedCount.n * 30 * result.monthlySimulatedCount.d * days.d
    /\ IsFinite(result.monthlyRawCount) /\ IsFinite(result.monthlySimulatedCount)
    /\ days = Num(30) =>
         /\ result.monthlyRawCount = result.totalRawCount
         /\ result.monthlySimulatedCount = result.totalSimulatedCount
    /\ (days = Num(7) /\ result.totalRawCount = Num(700)) =>
         result.monthlyRawCount = Num(3000)

\* seven days of 700 spans, simulated to a count that 7 does not divide
C10_Witness ==
  /\ ReturnedNonEmpty
  /\ days = Num(7)
  /\ result.totalRawCount = Num(700)
  /\ result.monthlyRawCount = Num(3000)
  /\ result.monthlySimulatedCount.d # 1

(***************************************************************************)
(* The empty dataset, signs, monotonicity                                  *)
(***************************************************************************)
\* C11: a dataset that has no groups, or is no array, is answered with all
\* five numbers zero and an empty breakdown, whatever the rules, the
\* expansion factor, the global rate, the period and the declared total.
C11_EmptyDatasetAllZero ==
  (Returned /\ ~NonEmpty) =>
    /\ result.totalRawCount = Num(0)
    /\ result.totalSimulatedCount = Num(0)
    /\ result.costReduction = Num(0)
    /\ result.monthlyRawCount = Num(0)
    /\ result.monthlySimulatedCount = Num(0)
    /\ result.breakdown = << >>

\* no groups, yet a declared total of 700, rules, and no default scalar
C11_Witness ==
  /\ Returned
  /\ IsArray(rawData) /\ rawData.items = << >>
  /\ HasDeclaredTotal(rawData) /\ rawData._totalCountFromMeta = Num(700)
  /\ Len(rules) = MaxRules
  /\ expansionFactor = Num(5) /\ globalRate = Rat(1, 2) /\ days = Num(7)
  /\ result.totalRawCount = Num(0)
  /\ result.breakdown = << >>

\* the premises of C12
NonNegativeInputs ==
  /\ IsArray(rawData) => \A i \in DOMAIN rawData.items : Ge(CountOf(rawData.items[i]), Num(0))
  /\ \A k \in DOMAIN rules : Ge(rules[k].rate, Num(0)) /\ Ge(Num(100), rules[k].rate)
  /\ Ge(globalRate, Num(0)) /\ Ge(Num(1), globalRate)
  /\ Ge(expansionFactor, Num(0))
  /\ Gt(days, Num(0))

\* C12: with counts >= 0, rule rates in [0,100], a global rate in [0,1], an
\* expansion factor >= 0 and days > 0, totalSimulatedCount, monthlyRawCount,
\* monthlySimulatedCount and the simulatedCount of every row are >= 0.
C12_NonNegativeOutputs ==
  (Returned /\ NonNegativeInputs) =>
    /\ Ge(result.totalSimulatedCount, Num(0))
    /\ Ge(result.monthlyRawCount, Num(0))
    /\ Ge(result.monthlySimulatedCount, Num(0))
    /\ \A i \in DOMAIN result.breakdown : Ge(result.breakdown[i].simulatedCount, Num(0))

\* a declared total below the sum of the groups, a rule at 0% that matches
C12_Witness ==
  /\ ReturnedNonEmpty
  /\ NonNegativeInputs
  /\ HasDeclaredTotal(rawData)
  /\ Gt(SumOfGroups(rawData.items), result.totalRawCount)
  /\ \E i \in DOMAIN result.breakdown : result.breakdown[i].samplingRate = Num(0)
  /\ Gt(result.totalSimulatedCount, Num(0))
  /\ expansionFactor = Num(5)

\* the rates a rule's rate is raised to
HigherRates(rate) == { r \in { Num(15), Num(50), Num(100) } : Gt(r, rate) }

\* the rule list with the rate of rule k set to r
WithRate(rs, k, r) == [rs EXCEPT ![k].rate = r]

\* totalSimulatedCount of the current arguments with the rule list rs
TotalSimulatedWith(rs) ==
  simulateSampling(rawData, rs, expansionFactor, globalRate, days).totalSimulatedCount

\* C13 as stated: raising the rate of one rule, everything else fixed, never
\* lowers totalSimulatedCount.  An expansion factor below zero refutes it.
C13_RaisingARateNeverLowersTotal ==
  Returned =>
    \A k \in DOMAIN rules : \A r \in HigherRates(rules[k].rate) :
      Ge(TotalSimulatedWith(WithRate(rules, k, r)), result.totalSimulatedCount)

\* C13 amended: with group counts and an expansion factor that are not
\* negative, raising the rate of one rule never lowers totalSimulatedCount.
C13_RaisingARateNeverLowersTotalNonNegative ==
  (/\ Returned
   /\ Ge(expansionFactor, Num(0))
   /\ IsArray(rawData) => \A i \in DOMAIN rawData.items : Ge(CountOf(rawData.items[i]), Num(0))) =>
    \A k \in DOMAIN rules : \A r \in HigherRates(rules[k].rate) :
      Ge(TotalSimulatedWith(WithRate(rules, k, r)), result.totalSimulatedCount)

\* factor 2: raising the rate of the rule that matches raises the total
C13_Witness ==
  /\ ReturnedNonEmpty
  /\ expansionFactor = Num(2)
  /\ \E k \in DOMAIN rules : \E r \in HigherRates(rules[k].rate) :
       Gt(TotalSimulatedWith(WithRate(rules, k, r)), result.totalSimulatedCount)

(***************************************************************************)
(* Properties of the value returned by matchesRule                         *)
(***************************************************************************)
Answered == matched # NoAnswer

\* the property is missing or is the empty string
Blank(obj, key) == key \notin DOMAIN obj \/ obj[key] = << >>

\* C15: whatever the operator, matchesRule answers false when the rule's
\* attribute is empty or missing, when the rule's value is empty or missing,
\* and when the record's value for the rule's attribute is empty or missing.
C15_BlankNeverMatches ==
  (/\ Answered
   /\ \/ Blank(matchRule, "attribute")
      \/ Blank(matchRule, "value")
      \/ Blank(matchItem.attrs, matchRule.attribute)) =>
    matched.value = FALSE

\* a 'contains' rule with the empty value against the record "db"
C15_Witness ==
  /\ Answered
  /\ ~Blank(matchRule, "attribute")
  /\ "value" \in DOMAIN matchRule /\ matchRule.value = << >>
  /\ "operator" \in DOMAIN matchRule /\ matchRule.operator = "contains"
  /\ ~Blank(matchItem.attrs, matchRule.attribute)
  /\ matched.value = FALSE

\* the same character up to the case of a letter
FoldEq(a, b) ==
  a = b \/ \E i \in DOMAIN UpperLetters : {a, b} = {UpperLetters[i], LowerLetters[i]}

\* t occurs in s at position i, up to case
OccursAt(s, t, i) ==
  /\ i >= 1 /\ i + Len(t) - 1 <= Len(s)
  /\ \A k \in DOMAIN t : FoldEq(s[i + k - 1], t[k])

EqualsFolded(s, t) == Len(s) = Len(t) /\ OccursAt(s, t, 1)
ContainsFolded(s, t) == \E i \in 1..(Len(s) + 1) : OccursAt(s, t, i)
PrefixFolded(s, t) == OccursAt(s, t, 1)
SuffixFolded(s, t) == OccursAt(s, t, Len(s) - Len(t) + 1)

\* s without its leading and trailing white space
Stripped(s) ==
  LET inked == { i \in DOMAIN s : s[i] \notin WhiteSpace }
  IN  IF inked = {} THEN << >>
      ELSE SubSeq(s, CHOOSE i \in inked : \A j \in inked : i <= j,
                     CHOOSE i \in inked : \A j \in inked : i >= j)

\* a rule with an attribute, one of the four comparing operators and a value
\* that is not empty, against a record whose value is not empty
ComparingCall ==
  /\ Answered
  /\ ~Blank(matchRule, "attribute") /\ ~Blank(matchRule, "value")
  /\ ~Blank(matchItem.attrs, matchRule.attribute)
  /\ "operator" \in DOMAIN matchRule
  /\ matchRule.operator \in {"equals", "contains", "starts_with", "ends_with"}

\* the answer the four operators give for the rule value v
ComparesWith(v) ==
  LET s == matchItem.attrs[matchRule.attribute]
  IN  /\ matchRule.operator = "equals" => (matched.value <=> EqualsFolded(s, v))
      /\ matchRule.operator = "contains" => (matched.value <=> ContainsFolded(s, v))
      /\ matchRule.operator = "starts_with" => (matched.value <=> PrefixFolded(s, v))
      /\ matchRule.operator = "ends_with" => (matched.value <=> SuffixFolded(s, v))

\* C16 as stated: the record value is compared, up to case, with the rule
\* value as it was entered.  The rule value " db " against the record "db"
\* refutes it: 'equals' answers true.
C16_ComparesWithEnteredValue == ComparingCall => ComparesWith(matchRule.value)

\* C16 amended: the record value is compared, up to case, with the rule
\* value stripped of its leading and trailing white space: 'equals' is
\* equality, 'contains' substring, 'starts_with' prefix, 'ends_with' suffix.
C16_ComparesWithTrimmedValue == ComparingCall => ComparesWith(Stripped(matchRule.value))

\* 'equals' with the rule value " db " against the record "DB": true
C16_Witness ==
  /\ ComparingCall
  /\ matchRule.operator = "equals"
  /\ matchRule.value = <<" ","d","b"," ">>
  /\ matchItem.attrs[matchRule.attribute] = <<"D","B">>
  /\ matched.value = TRUE

(***************************************************************************)
(* Rules the simulator skips, and what the call leaves behind              *)
(***************************************************************************)
\* a 'regex' rule whose pattern the RegExp constructor rejects
InvalidRegex(rule) ==
  /\ ~Blank(rule, "value")
  /\ OperatorOf(rule) = "regex"
  /\ ~RegexValid(Stripped(rule.value))

\* the rules of rs, in order, that match item and are no invalid pattern
ValidHits(item, rs) == { k \in Hits(item, rs) : ~InvalidRegex(rs[k]) }

\* C17: a 'regex' rule with an invalid pattern matches no group and stops
\* nothing: every group still gets its row, and the row's rate and label are
\* those of the first rule, in the order of evaluation, that is no invalid
\* pattern and matches, or the global rate when there is none.
C17_InvalidRegexIsSkipped ==
  ReturnedNonEmpty =>
    LET sorted == SortedRules(rules)
    IN  /\ Len(result.breakdown) = Len(rawData.items)
        /\ \A i \in DOMAIN rawData.items :
             LET item == rawData.items[i]
                 row == result.breakdown[i]
                 valid == ValidHits(item, sorted)
             IN  /\ row.attrs = item.attrs
                 /\ \A k \in DOMAIN rules : InvalidRegex(rules[k]) => row.matchedRule # LabelOf(rules[k])
                 /\ valid = {} => row.samplingRate = globalRate /\ row.matchedRule = Global
                 /\ valid # {} =>
                      /\ row.samplingRate = Div(sorted[Least(valid)].rate, Num(100))
                      /\ row.matchedRule = LabelOf(sorted[Least(valid)])

\* the pattern "(" first, then the valid pattern "^d": both groups are
\* sampled at the 20% of the second rule
C17_Witness ==
  /\ ReturnedNonEmpty
  /\ Len(rules) >= 2
  /\ InvalidRegex(rules[1])
  /\ rules[2].operator = "regex" /\ rules[2].value = <<"^","d">>
  /\ Len(rawData.items) >= 2
  /\ \A i \in DOMAIN rawData.items :
       /\ result.breakdown[i].samplingRate = Rat(1, 5)
       /\ result.breakdown[i].matchedRule = LabelOf(rules[2])

\* a rule with an empty or missing attribute, or an empty or missing value
Inactive(rule) == Blank(rule, "attribute") \/ Blank(rule, "value")

WithoutInactive(rs) == SelectSeq(rs, LAMBDA rule : ~Inactive(rule))

\* C18: the value returned for a rule list is the value returned for the
\* list without its inactive rules (empty attribute or empty value), no row
\* carries the label of an inactive rule, and getActiveRules keeps none of
\* the inactive rules.
C18_InactiveRulesChangeNothing ==
  Returned =>
    /\ result = simulateSampling(rawData, WithoutInactive(rules), expansionFactor, globalRate, days)
    /\ \A k \in DOMAIN rules : Inactive(rules[k]) =>
         /\ \A i \in DOMAIN result.breakdown : result.breakdown[i].matchedRule # LabelOf(rules[k])
         /\ \A j \in DOMAIN getActiveRules(rules) : getActiveRules(rules)[j] # rules[k]

\* the 'contains' rule with the empty value before the 'equals' rule "db":
\* the group "DB" is sampled at the 80% of the second rule
C18_Witness ==
  /\ ReturnedNonEmpty
  /\ Len(rules) >= 2
  /\ Inactive(rules[1]) /\ rules[1].attribute = SpanOp /\ rules[1].operator = "contains"
  /\ ~Inactive(rules[2]) /\ rules[2].operator = "equals"
  /\ \E i \in DOMAIN rawData.items :
       /\ Gt(CountOf(rawData.items[i]), Num(0))
       /\ result.breakdown[i].matchedRule = LabelOf(rules[2])
       /\ result.breakdown[i].samplingRate = Rat(4, 5)

Rendered == formatted # NoText

DecidedBy(row, rule) ==
  row.matchedRule = LabelOf(rule) /\ row.samplingRate = Div(rule.rate, Num(100))

\* C21: the order of evaluation is the 'equals' rules in their input order
\* followed by the other rules in their input order; when rule j is the
\* first rule of its class in the input that matches a group, a later
\* matching rule of that class never decides the group's row unless rule j
\* decides it as well (the later rule then has the label and rate of rule j).
C21_StablePartition ==
  ReturnedNonEmpty =>
    /\ SortedRules(rules) =
         SelectSeq(rules, IsEquals) \o SelectSeq(rules, LAMBDA rule : ~IsEquals(rule))
    /\ \A i \in DOMAIN rawData.items : \A j, k \in DOMAIN rules :
         (/\ j < k
          /\ IsEquals(rules[j]) <=> IsEquals(rules[k])
          /\ \A m \in 1..(j - 1) :
               (IsEquals(rules[m]) <=> IsEquals(rules[j])) => ~matchesRule(rawData.items[i], rules[m])
          /\ matchesRule(rawData.items[i], rules[j])
          /\ matchesRule(rawData.items[i], rules[k])
          /\ DecidedBy(result.breakdown[i], rules[k])) =>
           DecidedBy(result.breakdown[i], rules[j])

\* two different 'equals' rules that both match a group: the first decides
C21_Witness ==
  /\ ReturnedNonEmpty
  /\ Len(rules) >= 2
  /\ rules[1] # rules[2]
  /\ IsEquals(rules[1]) /\ IsEquals(rules[2])
  /\ \E i \in DOMAIN rawData.items :
       /\ matchesRule(rawData.items[i], rules[1])
       /\ matchesRule(rawData.items[i], rules[2])
       /\ DecidedBy(result.breakdown[i], rules[1])
       /\ ~DecidedBy(result.breakdown[i], rules[2])

(***************************************************************************)
(* The default operator, trimming, blank values                            *)
(***************************************************************************)
KnownOperators == {"equals", "contains", "starts_with", "ends_with", "regex"}

\* the operator is missing, empty, or none of the five
NoKnownOperator(rule) == "operator" \notin DOMAIN rule \/ rule.operator \notin KnownOperators

\* the rule with its operator replaced
WithOperator(rule, op) == ("operator" :> op) @@ rule

\* C22: a rule whose operator is missing or is none of the five is answered
\* as the same rule with operator 'contains' is; with an attribute, a value
\* and a record value that are not empty, the answer is true exactly when
\* the record value contains the trimmed rule value, up to case.
C22_UnknownOperatorIsContains ==
  (Answered /\ NoKnownOperator(matchRule)) =>
    /\ matched.value = matchesRule(matchItem, WithOperator(matchRule, "contains"))
    /\ (/\ ~Blank(matchRule, "attribute") /\ ~Blank(matchRule, "value")
        /\ ~Blank(matchItem.attrs, matchRule.attribute)) =>
         (matched.value <=>
            ContainsFolded(matchItem.attrs[matchRule.attribute], Stripped(matchRule.value)))

\* operator "fuzzy", value "Query" against "db.query": true, though the
\* value is neither the whole record value nor its beginning
C22_Witness ==
  /\ Answered
  /\ "operator" \in DOMAIN matchRule /\ matchRule.operator = "fuzzy"
  /\ ~Blank(matchRule, "attribute")
  /\ "value" \in DOMAIN matchRule /\ matchRule.value = <<"Q","u","e","r","y">>
  /\ ~Blank(matchItem.attrs, matchRule.attribute)
  /\ matchItem.attrs[matchRule.attribute] = <<"d","b",".","q","u","e","r","y">>
  /\ matched.value = TRUE

\* C23: the white space around the rule value does not count, the white
\* space around the record value does: an 'equals' rule never matches a
\* record value that begins or ends with white space, the rule value " db "
\* equals the record value "db", the rule value "db" not the record " db ".
C23_OnlyRuleValueTrimmed ==
  (/\ Answered
   /\ ~Blank(matchRule, "attribute") /\ ~Blank(matchRule, "value")
   /\ ~Blank(matchItem.attrs, matchRule.attribute)
   /\ "operator" \in DOMAIN matchRule /\ matchRule.operator = "equals") =>
    LET s == matchItem.attrs[matchRule.attribute]
        v == matchRule.value
    IN  /\ matched.value = matchesRule(matchItem, ("value" :> Stripped(v)) @@ matchRule)
        /\ s # Stripped(s) => matched.value = FALSE
        /\ (v = <<" ","d","b"," ">> /\ s = <<"d","b">>) => matched.value = TRUE
        /\ (v = <<"d","b">> /\ s = <<" ","d","b"," ">>) => matched.value = FALSE
        /\ (v = <<" ","d","b"," ">> /\ s = <<" ","d","b"," ">>) => matched.value = FALSE

\* the rule value " db " has been compared with the record value "db"
C23_Witness ==
  /\ Answered
  /\ "operator" \in DOMAIN matchRule /\ matchRule.operator = "equals"
  /\ ~Blank(matchRule, "attribute")
  /\ "value" \in DOMAIN matchRule /\ matchRule.value = <<" ","d","b"," ">>
  /\ ~Blank(matchItem.attrs, matchRule.attribute)
  /\ matchItem.attrs[matchRule.attribute] = <<"d","b">>
  /\ matched.value = TRUE

\* C24 as stated: a rule whose value is white space only is answered
\* false, whatever the operator.  The value " " with 'contains' against the
\* record "db" refutes it: the guard sees a value, the comparison an empty one.
C24_WhitespaceValueNeverMatches ==
  (/\ Answered
   /\ "value" \in DOMAIN matchRule
   /\ matchRule.value # << >>
   /\ Stripped(matchRule.value) = << >>) =>
    matched.value = FALSE

(***************************************************************************)
(* The rows add up                                                         *)
(***************************************************************************)
RECURSIVE SumField(_, _)
SumField(rows, field) ==
  IF rows = << >> THEN Num(0) ELSE Add(rows[1][field], SumField(Tail(rows), field))

\* C25: totalSimulatedCount is the sum of simulatedCount over the rows of
\* the breakdown, the "(other)" row included.
C25_TotalIsSumOfRows ==
  Returned => result.totalSimulatedCount = SumField(result.breakdown, "simulatedCount")

\* two groups and an "(other)" row, each with a simulated count above zero
C25_Witness ==
  /\ ReturnedNonEmpty
  /\ Len(result.breakdown) = Len(rawData.items) + 1
  /\ Len(rawData.items) >= 2
  /\ IsOtherRow(result.breakdown[Len(result.breakdown)])
  /\ \A i \in DOMAIN result.breakdown : Gt(result.breakdown[i].simulatedCount, Num(0))
  /\ \E i \in DOMAIN rawData.items : result.breakdown[i].matchedRule # Global

\* C26: for a dataset with groups and a declared total that is absent or
\* not below the sum of the group counts, totalRawCount is the sum of
\* rawCount over the rows of the breakdown.
C26_RawCountsAddUp ==
  (/\ ReturnedNonEmpty
   /\ HasDeclaredTotal(rawData) =>
        Ge(rawData._totalCountFromMeta, SumOfGroups(rawData.items))) =>
    result.totalRawCount = SumField(result.breakdown, "rawCount")

\* a declared total of 700 above groups that sum to 3
C26_Witness ==
  /\ ReturnedNonEmpty
  /\ HasDeclaredTotal(rawData)
  /\ SumOfGroups(rawData.items) = Num(3)
  /\ result.totalRawCount = Num(700)
  /\ IsOtherRow(result.breakdown[Len(result.breakdown)])
  /\ result.breakdown[Len(result.breakdown)].rawCount = Num(697)

(***************************************************************************)
(* app: pages of the breakdown table                                       *)
(***************************************************************************)
MaxOf(a, b) == IF a >= b THEN a ELSE b

\* the least k with k * itemsPerPage >= n
CeilPages(n) == CHOOSE k \in 0..n : k * itemsPerPage >= n /\ \A j \in 0..(k - 1) : j * itemsPerPage < n

\* C27: 1 <= currentPage <= max(1, ceil(filtered rows / 50)) in every state,
\* the rendered page holds at most 50 rows, the rows of the current page,
\* and every step that changes the filtered rows sets currentPage to 1.
C27_PageWithinRange ==
  /\ [](/\ currentPage >= 1
        /\ currentPage <= MaxOf(1, CeilPages(Len(filteredBreakdownData)))
        /\ Len(pageItems) <= 50
        /\ \A i \in DOMAIN pageItems :
             pageItems[i] = filteredBreakdownData[(currentPage - 1) * 50 + i])
  /\ [][filteredBreakdownData' # filteredBreakdownData => currentPage' = 1]_vars

\* the third and last page of 101 rows: one row
C27_Witness ==
  /\ Len(filteredBreakdownData) = 101
  /\ currentPage = 3
  /\ Len(pageItems) = 1
  /\ pageItems[1] = filteredBreakdownData[101]

(***************************************************************************)
(* C28: the fetch button is disabled from the start of handleFetchData     *)
(* until it finishes; every exit of the handler (success, failed           *)
(* organization detection, the return after a fetch by project id, a       *)
(* thrown fetch error) leaves the button enabled and the spinner hidden;   *)
(* and once the awaited requests settle, a disabled button is enabled      *)
(* again.                                                                  *)
(***************************************************************************)
Loading == fetchBtnDisabled /\ ~spinnerHidden
LoadingCleared == ~fetchBtnDisabled /\ spinnerHidden

C28_LoadingStateAlwaysCleared ==
  /\ [](fetchPc # "idle" => Loading)
  /\ [][fetchPc # "idle" /\ fetchPc' = "idle" => LoadingCleared']_vars
  /\ [](fetchPc = "idle" => LoadingCleared)
  /\ (Loading ~> LoadingCleared)

\* the handler has returned after a fetch by project id and the button is
\* enabled again
C28_Witness ==
  /\ fetchPc = "idle"
  /\ dataProject = "a"
  /\ HasProjectId(dataProject)
  /\ LoadingCleared

(***************************************************************************)
(* C30: whenever the sample-rates panel shows the rates of a project, it   *)
(* is the project of the most recent successful data fetch.                *)
(***************************************************************************)
ShowsRatesOf(project) == sampleRatesDisplay /\ sampleRatesContent = project

FetchDelivers ==
  /\ fetchPc \in {"fetch", "fetchById"}
  /\ fetchPc' = "idle"
  /\ response.kind = "data"
  /\ ~NoSpanData(response.data)

FetchStepTaken == fetchPc' # fetchPc \/ response' # response

PassedOn(rule) == ~Blank(rule, "value") /\ trim(rule.value) # << >> /\ ~Blank(rule, "attribute")

C29_FetchResetsAndCalculateGuards ==
  /\ [][/\ FetchDelivers => rawData' = response.data /\ rules' = << >>
        /\ FetchStepTaken /\ ~FetchDelivers => rawData' = rawData /\ rules' = rules
        /\ simulatorArgs' # simulatorArgs \/ result' # result =>
             /\ ~NoSpanData(rawData)
             /\ simulatorArgs'.called
             /\ simulatorArgs'.data = rawData]_vars
  /\ [](simulatorArgs.called =>
          /\ ~NoSpanData(simulatorArgs.data)
          /\ \A i \in DOMAIN simulatorArgs.rules : PassedOn(simulatorArgs.rules[i]))

\* the simulator was called with a rule, and a later fetch has replaced the
\* dataset and emptied the rule list
C29_Witness ==
  /\ simulatorArgs.called
  /\ simulatorArgs.rules # << >>
  /\ simulatorArgs.data # rawData
  /\ ~NoSpanData(rawData)
  /\ rules = << >>
  /\ fetchPc = "idle"

====
